---- MODULE Spec2Model ----
(***************************************************************************)
(* Model of the Enron HR network-analysis pipeline                         *)
(* (src/archive/pipeline_broken_20260131_172014.py).                       *)
(*                                                                         *)
(* Text is a sequence of one-character strings.  Time is counted in tenths *)
(* of an hour (0.1h = 1), so the response-time bounds 0.1h and 168h are    *)
(* the integers 1 and 1680.                                                *)
(***************************************************************************)
EXTENDS Integers, Sequences, FiniteSets, TLC

VARIABLES
    G,                \* the interaction graph: [nodes, weight]
    user_stats,       \* address -> [response_times, in_degree_count, in_strength, out_strength]
    pending_replies,  \* (from, to, thread_key) -> FIFO of timestamps
    rows_kept,        \* number of messages ingested
    matches,          \* log of the popleft() calls: [replier, asker, thread_key, t0, dt]
    slots_naming,     \* (u, v), u # v -> receiver slots naming v in the messages sent by u
    msgs_naming,      \* (u, v), u # v -> messages sent by u that name v at least once
    subject,          \* normalize_subject: the argument
    norm_pc,          \* normalize_subject: "in", "once", "twice"
    norm_once,        \* normalize_subject(subject)
    norm_twice,       \* normalize_subject(normalize_subject(subject))
    frag_G,           \* compute_fragmentation_impact: the graph argument
    frag_members,     \* compute_fragmentation_impact: the members argument
    frag_pc,          \* compute_fragmentation_impact: "in", "done"
    frag_out,         \* [original_lcc, new_lcc, impact, left]: impact in hundredths of a percent
    macro_G,          \* the finished graph handed to the metric stage
    macro_stats,      \* node -> [in_degree_count, response_times]
    macro_comms,      \* the partition returned by greedy_modularity_communities
    macro_pc,         \* "start", "table", "done", "error"
    cluster_df,       \* the community table, one record per retained community
    dept_members,     \* Dept_ID -> members, as a sequence aligned with the rows built
    macro_error,      \* the exception that ended the stage, or "none"
    micro_out         \* largest-component sizes found by run_micro_simulation

ingestVars == <<G, user_stats, pending_replies, rows_kept, matches, slots_naming, msgs_naming>>
normVars == <<subject, norm_pc, norm_once, norm_twice>>
fragVars == <<frag_G, frag_members, frag_pc, frag_out>>
macroVars == <<macro_G, macro_stats, macro_comms, macro_pc, cluster_df, dept_members,
               macro_error, micro_out>>
vars == <<G, user_stats, pending_replies, rows_kept, matches, slots_naming, msgs_naming,
          subject, norm_pc, norm_once, norm_twice,
          frag_G, frag_members, frag_pc, frag_out,
          macro_G, macro_stats, macro_comms, macro_pc, cluster_df, dept_members,
          macro_error, micro_out>>

-----------------------------------------------------------------------------
(* Bounds of the model *)

MaxMsgs == 3
MaxRecv == 2
MaxPieces == 4
MaxFragNodes == 3
MaxMacroNodes == 11

(* Program constants *)

RT_MIN_TENTHS == 1
RT_MAX_TENTHS == 1680
SLOW_THRESHOLD_TENTHS == 240
SLOW_THRESHOLD_HUNDREDTHS == 2400
EI_OPEN_THRESHOLD_HUNDREDTHS == -20
MIN_COMMUNITY_SIZE == 10
MICRO_TOP_K == 10

-----------------------------------------------------------------------------
(* Text *)

LowerChar(c) ==
    CASE c = "R" -> "r"
      [] c = "E" -> "e"
      [] c = "F" -> "f"
      [] c = "W" -> "w"
      [] c = "D" -> "d"
      [] OTHER -> c

lower(s) == [i \in 1..Len(s) |-> LowerChar(s[i])]

IsSpace(c) == c = " "

RECURSIVE lstrip(_)
lstrip(s) == IF s # <<>> /\ IsSpace(Head(s)) THEN lstrip(Tail(s)) ELSE s

RECURSIVE rstrip(_)
rstrip(s) ==
    IF s # <<>> /\ IsSpace(s[Len(s)]) THEN rstrip(SubSeq(s, 1, Len(s) - 1)) ELSE s

strip(s) == rstrip(lstrip(s))

StartsWith(s, p) == Len(s) >= Len(p) /\ SubSeq(s, 1, Len(p)) = p

Drop(s, n) == SubSeq(s, n + 1, Len(s))

Markers == << <<"r", "e", ":">>, <<"f", "w", ":">>, <<"f", "w", "d", ":">> >>

\* re.sub(r"^(re:|fw:|fwd:)\s*", "", s): the first alternative that matches at
\* the start is removed together with the whitespace that follows it.
re_sub_marker(s) ==
    IF \E i \in 1..Len(Markers) : StartsWith(s, Markers[i])
    THEN LET i == CHOOSE j \in 1..Len(Markers) :
                      /\ StartsWith(s, Markers[j])
                      /\ \A k \in 1..(j - 1) : ~StartsWith(s, Markers[k])
         IN  lstrip(Drop(s, Len(Markers[i])))
    ELSE s

RECURSIVE strip_markers(_)
strip_markers(s) ==
    LET new_s == strip(re_sub_marker(s))
    IN  IF new_s = s THEN s ELSE strip_markers(new_s)

\* A single pass of the loop body: what the function would be without "while True".
normalize_subject_single_pass(subj) ==
    IF subj = <<>> THEN <<>> ELSE strip(re_sub_marker(lower(strip(subj))))

normalize_subject(subj) ==
    IF subj = <<>> THEN <<>> ELSE strip_markers(lower(strip(subj)))

-----------------------------------------------------------------------------
(* Ingestion: the loop body of process_data_pipeline on validated messages *)

Users == {"a", "b"}

\* Timestamps in tenths of an hour: differences of exactly 0.1h (1) and 168h
\* (1680), one inside the bounds (1679), zero and negative ones.
Times == {0, 1, 1680}

Subjects ==
    { <<"h">>, <<"R", "E", ":", " ", "h">> }

\* a subject of another conversation
OtherSubjects == { <<"x">> }

\* line 125, USE_SUBJECT_THREADING_FOR_RT = True
thread_key_of == [s \in Subjects \cup OtherSubjects |-> normalize_subject(s)]

ThreadKeys == { thread_key_of[s] : s \in Subjects }

ReceiverLists == UNION { [1..n -> Users] : n \in 1..MaxRecv }

\* number of slots of the receiver list that hold r
Count(r, receivers) == Cardinality({i \in 1..Len(receivers) : receivers[i] = r})

\* the pairs an edge can join: line 128 skips sender == receiver
OrderedPairs == {p \in Users \X Users : p[1] # p[2]}

QueueKeys == Users \X Users \X ThreadKeys

\* defaultdict(lambda: {...}): every address has the default entry until touched
NewUserStats ==
    [response_times |-> <<>>, in_degree_count |-> 0, in_strength |-> 0, out_strength |-> 0]

has_edge(g, u, v) == <<u, v>> \in DOMAIN g.weight

\* G.add_edge(sender, receiver, weight=1) on every slot: the weight never grows
add_edge_overwrite(g, u, v) ==
    [nodes |-> g.nodes \cup {u, v},
     weight |-> [e \in DOMAIN g.weight \cup {<<u, v>>} |->
                    IF e = <<u, v>> THEN 1 ELSE g.weight[e]]]

\* lines 131-134
add_or_increment_edge(g, u, v) ==
    IF has_edge(g, u, v)
    THEN [g EXCEPT !.weight[<<u, v>>] = @ + 1]
    ELSE [nodes |-> g.nodes \cup {u, v},
          weight |-> [e \in DOMAIN g.weight \cup {<<u, v>>} |->
                         IF e = <<u, v>> THEN 1 ELSE g.weight[e]]]

\* lines 136-138
count_receiver(us, sender, receiver) ==
    LET us1 == [us EXCEPT ![receiver].in_degree_count = @ + 1,
                          ![receiver].in_strength = @ + 1]
    IN  [us1 EXCEPT ![sender].out_strength = @ + 1]

\* RT_MIN_HOURS <= hours_diff <= RT_MAX_HOURS: the bounds taken as inclusive
rt_in_bounds_inclusive(hours_diff) ==
    RT_MIN_TENTHS <= hours_diff /\ hours_diff <= RT_MAX_TENTHS

\* line 144
rt_in_bounds(hours_diff) == RT_MIN_TENTHS < hours_diff /\ hours_diff < RT_MAX_TENTHS

\* deque.pop(): the newest entry, what a stack would give
pop_right(q) == [value |-> q[Len(q)], rest |-> SubSeq(q, 1, Len(q) - 1)]

\* deque.clear() after reading the oldest entry: the whole queue is dropped
pop_and_clear(q) == [value |-> Head(q), rest |-> <<>>]

\* deque.popleft(): the oldest entry (line 142)
popleft(q) == [value |-> Head(q), rest |-> Tail(q)]

\* pending_replies[key_reply][0] read without popleft(): the entry stays queued
match_and_push_peek(st, sender, receiver, dt, thread_key) ==
    LET key_reply == <<receiver, sender, thread_key>>
        q == st.pending[key_reply]
        original_time == Head(q)
        hours_diff == dt - original_time
        us1 == IF q # <<>> /\ rt_in_bounds(hours_diff)
               THEN [st.us EXCEPT ![sender].response_times = Append(@, hours_diff)]
               ELSE st.us
        matches1 == IF q # <<>>
                    THEN Append(st.matches,
                                [replier |-> sender, asker |-> receiver,
                                 thread_key |-> thread_key, t0 |-> original_time, dt |-> dt])
                    ELSE st.matches
    IN  [us |-> us1,
         pending |-> [st.pending EXCEPT ![<<sender, receiver, thread_key>>] = Append(@, dt)],
         matches |-> matches1]

\* lines 140-147: st = [us, pending, matches]
match_and_push(st, sender, receiver, dt, thread_key) ==
    LET key_reply == <<receiver, sender, thread_key>>
        q == st.pending[key_reply]
        original_time == popleft(q).value
        hours_diff == dt - original_time
        us1 == IF q # <<>> /\ rt_in_bounds(hours_diff)
               THEN [st.us EXCEPT ![sender].response_times = Append(@, hours_diff)]
               ELSE st.us
        pending1 == IF q # <<>>
                    THEN [st.pending EXCEPT ![key_reply] = popleft(q).rest]
                    ELSE st.pending
        matches1 == IF q # <<>>
                    THEN Append(st.matches,
                                [replier |-> sender, asker |-> receiver,
                                 thread_key |-> thread_key, t0 |-> original_time, dt |-> dt])
                    ELSE st.matches
    IN  [us |-> us1,
         pending |-> [pending1 EXCEPT ![<<sender, receiver, thread_key>>] = Append(@, dt)],
         matches |-> matches1]

\* the loop body without "if sender == receiver: continue"
process_receiver_no_self_skip(st, sender, receiver, dt, thread_key) ==
    LET m == match_and_push([us |-> count_receiver(st.us, sender, receiver),
                             pending |-> st.pending,
                             matches |-> st.matches],
                            sender, receiver, dt, thread_key)
    IN  [g |-> add_or_increment_edge(st.g, sender, receiver),
         us |-> m.us, pending |-> m.pending, matches |-> m.matches]

\* lines 128-147: one iteration of "for receiver in receivers"
process_receiver(st, sender, receiver, dt, thread_key) ==
    IF sender = receiver
    THEN st
    ELSE LET m == match_and_push([us |-> count_receiver(st.us, sender, receiver),
                                  pending |-> st.pending,
                                  matches |-> st.matches],
                                 sender, receiver, dt, thread_key)
         IN  [g |-> add_or_increment_edge(st.g, sender, receiver),
              us |-> m.us, pending |-> m.pending, matches |-> m.matches]

\* lines 127-147: the whole loop over the receiver list, in order
RECURSIVE process_receivers(_, _, _, _, _)
process_receivers(st, sender, receivers, dt, thread_key) ==
    IF receivers = <<>>
    THEN st
    ELSE process_receivers(process_receiver(st, sender, Head(receivers), dt, thread_key),
                           sender, Tail(receivers), dt, thread_key)

IdleIngest ==
    /\ G = [nodes |-> {}, weight |-> <<>>]
    /\ user_stats = [u \in Users |-> NewUserStats]
    /\ pending_replies = [k \in QueueKeys |-> <<>>]
    /\ rows_kept = 0
    /\ matches = <<>>
    /\ slots_naming = [p \in OrderedPairs |-> 0]
    /\ msgs_naming = [p \in OrderedPairs |-> 0]

IdleNorm ==
    /\ subject = <<>>
    /\ norm_pc = "idle"
    /\ norm_once = <<>>
    /\ norm_twice = <<>>

NoFragOut == [original_lcc |-> 0, new_lcc |-> 0, impact |-> 0, left |-> [nodes |-> {}, weight |-> <<>>]]

IdleFrag ==
    /\ frag_G = [nodes |-> {}, weight |-> <<>>]
    /\ frag_members = {}
    /\ frag_pc = "idle"
    /\ frag_out = NoFragOut

NoMicroOut == [orig_lcc |-> 0, new_lcc_load |-> 0, new_lcc_conn |-> 0]

IdleMacro ==
    /\ macro_G = [nodes |-> {}, weight |-> <<>>]
    /\ macro_stats = <<>>
    /\ macro_comms = <<>>
    /\ macro_pc = "idle"
    /\ cluster_df = <<>>
    /\ dept_members = <<>>
    /\ macro_error = "none"
    /\ micro_out = NoMicroOut

\* lines 60-71
Init ==
    /\ IdleIngest
    /\ IdleNorm
    /\ IdleFrag
    /\ IdleMacro

\* lines 122-149: one validated message (sender, receivers, dt, subject)
Ingest(sender, receivers, dt, subj) ==
    /\ rows_kept < MaxMsgs
    /\ LET thread_key == thread_key_of[subj]
           st == process_receivers([g |-> G, us |-> user_stats,
                                    pending |-> pending_replies, matches |-> matches],
                                   sender, receivers, dt, thread_key)
       IN  /\ G' = st.g
           /\ user_stats' = st.us
           /\ pending_replies' = st.pending
           /\ matches' = st.matches
    /\ slots_naming' = [p \in OrderedPairs |->
                            slots_naming[p] + (IF p[1] = sender THEN Count(p[2], receivers) ELSE 0)]
    /\ msgs_naming' = [p \in OrderedPairs |->
                           msgs_naming[p] + (IF p[1] = sender /\ Count(p[2], receivers) > 0
                                             THEN 1 ELSE 0)]
    /\ rows_kept' = rows_kept + 1
    /\ UNCHANGED <<normVars, fragVars, macroVars>>

Next ==
    \E sender \in Users, receivers \in ReceiverLists, dt \in Times, subj \in Subjects :
        Ingest(sender, receivers, dt, subj)

Spec == Init /\ [][Next]_vars

-----------------------------------------------------------------------------
(* Properties of the ingestion pass *)

RECURSIVE SumSet(_, _)
SumSet(f, S) ==
    IF S = {} THEN 0
    ELSE LET x == CHOOSE y \in S : TRUE IN f[x] + SumSet(f, S \ {x})

Min(a, b) == IF a <= b THEN a ELSE b

Weight(u, v) == IF <<u, v>> \in DOMAIN G.weight THEN G.weight[<<u, v>>] ELSE 0

InWeight(u) == SumSet([v \in Users |-> Weight(v, u)], Users)

TheKey == normalize_subject(<<"h">>)

\* C1: for every node u the weights of the edges entering u add up to
\* user_stats[u].in_degree_count, whatever receiver lists were ingested.
C1_InWeightIsInDegree ==
    \A u \in Users : InWeight(u) = user_stats[u].in_degree_count

\* C1 witness: one message from a whose receiver list names b twice (and a
\* message from b naming itself and a) has been counted.
C1_Witness ==
    /\ Weight("a", "b") = 2
    /\ msgs_naming[<<"a", "b">>] = 1
    /\ user_stats["b"].in_degree_count = 2
    /\ Weight("b", "a") = 1
    /\ "b" \in G.nodes

\* the entries of the log written by this step
NewMatches == SubSeq(matches', Len(matches) + 1, Len(matches'))

MatchesOn(ms, asker, replier, k) ==
    SelectSeq(ms, LAMBDA m : m.asker = asker /\ m.replier = replier /\ m.thread_key = k)

T0s(ms) == [i \in 1..Len(ms) |-> ms[i].t0]

InsideBounds(e) == e > 1 /\ e < 1680

RECURSIVE Samples(_)
Samples(ms) ==
    IF ms = <<>> THEN <<>>
    ELSE (IF InsideBounds(Head(ms).dt - Head(ms).t0)
          THEN <<Head(ms).dt - Head(ms).t0>> ELSE <<>>) \o Samples(Tail(ms))

\* slots of this step's message that name v, the message being sent by u
SlotsNow(u, v) == slots_naming'[<<u, v>>] - slots_naming[<<u, v>>]

\* the scenario of C2: the two oldest pending entries of (A, B, k) are t1 < t2
\* and this step is a message from B that names A on thread key k
ReplyToTwoPending(A, B, k) ==
    /\ Len(pending_replies[<<A, B, k>>]) >= 2
    /\ pending_replies[<<A, B, k>>][1] < pending_replies[<<A, B, k>>][2]
    /\ SlotsNow(B, A) >= 1
    /\ Len(pending_replies'[<<B, A, k>>]) > Len(pending_replies[<<B, A, k>>])

\* C2 as stated: the reply from B to A is matched against t1 and t2 stays
\* queued as the next entry, for a later message from B to A.
C2_ReplyLeavesSecondQueued ==
    [][\A p \in OrderedPairs, k \in ThreadKeys :
          ReplyToTwoPending(p[1], p[2], k) =>
              /\ Len(MatchesOn(NewMatches, p[1], p[2], k)) >= 1
              /\ MatchesOn(NewMatches, p[1], p[2], k)[1].t0 = pending_replies[<<p[1], p[2], k>>][1]
              /\ pending_replies'[<<p[1], p[2], k>>] = Tail(pending_replies[<<p[1], p[2], k>>])
      ]_vars

\* C2 amended: the reply from B to A is matched against t1 first; every slot
\* of the reply that names A pops the next oldest entry, so t2 stays queued as
\* the next entry exactly when the reply names A once, and a reply naming A
\* twice is matched against t1 and then t2.  The samples recorded for B are
\* the elapsed times of these matches, in that order.
C2_FifoPerSlot ==
    [][\A p \in OrderedPairs, k \in ThreadKeys :
          ReplyToTwoPending(p[1], p[2], k) =>
              LET q == pending_replies[<<p[1], p[2], k>>]
                  popped == MatchesOn(NewMatches, p[1], p[2], k)
                  n == Min(SlotsNow(p[2], p[1]), Len(q))
              IN  /\ Len(popped) = n
                  /\ T0s(popped) = SubSeq(q, 1, n)
                  /\ pending_replies'[<<p[1], p[2], k>>] = SubSeq(q, n + 1, Len(q))
                  /\ SlotsNow(p[2], p[1]) = 1 =>
                        Head(pending_replies'[<<p[1], p[2], k>>]) = q[2]
                  /\ user_stats'[p[2]].response_times =
                        user_stats[p[2]].response_times \o Samples(popped)
      ]_vars

\* C2 witness: a sent b messages at 1 and at 1680, b answered once at 1680:
\* the sample is 1680 - 1 and the entry 1680 is the head of the queue.
C2_Witness ==
    /\ rows_kept = 3
    /\ matches = << [replier |-> "b", asker |-> "a", thread_key |-> TheKey,
                     t0 |-> 1, dt |-> 1680] >>
    /\ user_stats["b"].response_times = <<1679>>
    /\ pending_replies[<<"a", "b", TheKey>>] = <<1680>>

\* the log entries of the matches made by u, and the queue entries u -> v still pending
MatchesBy(u) == SelectSeq(matches, LAMBDA m : m.replier = u)

PendingCount(u, v) ==
    SumSet([k \in ThreadKeys |-> Len(pending_replies[<<u, v, k>>])], ThreadKeys)

PoppedCount(u, v) ==
    Len(SelectSeq(matches, LAMBDA m : m.asker = u /\ m.replier = v))

\* C3: the samples of a user are exactly the elapsed times of the matches the
\* user made that lie strictly between 0.1h and 168h, so every sample lies
\* strictly inside the bounds; a popped entry is gone from its queue whether
\* or not it gave a sample (entries pending plus entries popped are the
\* entries pushed).
C3_SampleIffInsideBounds ==
    /\ \A u \in Users :
          /\ user_stats[u].response_times = Samples(MatchesBy(u))
          /\ \A i \in 1..Len(user_stats[u].response_times) :
                /\ user_stats[u].response_times[i] > 1
                /\ user_stats[u].response_times[i] < 1680
    /\ \A p \in OrderedPairs :
          PendingCount(p[1], p[2]) + PoppedCount(p[1], p[2]) = slots_naming[p]

\* C3 witness: b answered a after exactly 0.1h (no sample, entry consumed),
\* then a answered b after 167.9h (sample recorded).
C3_Witness ==
    /\ matches = << [replier |-> "b", asker |-> "a", thread_key |-> TheKey,
                     t0 |-> 0, dt |-> 1],
                    [replier |-> "a", asker |-> "b", thread_key |-> TheKey,
                     t0 |-> 1, dt |-> 1680] >>
    /\ user_stats["b"].response_times = <<>>
    /\ user_stats["a"].response_times = <<1679>>
    /\ pending_replies[<<"b", "a", TheKey>>] = <<>>
    /\ pending_replies[<<"a", "b", TheKey>>] = <<1680>>

QueueGrowth(u, v) ==
    SumSet([k \in ThreadKeys |->
               Len(pending_replies'[<<u, v, k>>]) - Len(pending_replies[<<u, v, k>>])],
           ThreadKeys)

\* C4 as stated: one message pushes once on the queue of its own direction
\* and pops at most once from the queue of the opposite direction.
C4_OnePushOnePopPerMessage ==
    [][\A p \in OrderedPairs :
          /\ SlotsNow(p[1], p[2]) >= 1 => QueueGrowth(p[1], p[2]) = 1
          /\ QueueGrowth(p[1], p[2]) >= -1
          /\ Len(MatchesOn(NewMatches, p[1], p[2], TheKey)) <= 1
      ]_vars

\* C4 amended: pushes and pops go by receiver slot.  A message from u that
\* names v in n slots pushes n entries on the queues (u, v, k) and pops at
\* most n entries from the queues (v, u, k), the oldest first; every popped
\* entry leaves its queue, so no queued timestamp is matched twice.
C4_OnePushOnePopPerSlot ==
    [][\A p \in OrderedPairs :
          LET u == p[1]
              v == p[2]
              poppedAll == SelectSeq(NewMatches, LAMBDA m : m.asker = u /\ m.replier = v)
          IN  /\ SlotsNow(u, v) >= 1 => QueueGrowth(u, v) = SlotsNow(u, v)
              /\ Len(poppedAll) <= SlotsNow(v, u)
              /\ SlotsNow(v, u) >= 1 => QueueGrowth(u, v) = -Len(poppedAll)
              /\ \A k \in ThreadKeys :
                    LET q == pending_replies[<<u, v, k>>]
                        popped == MatchesOn(NewMatches, u, v, k)
                    IN  /\ Len(popped) <= Len(q)
                        /\ T0s(popped) = SubSeq(q, 1, Len(popped))
                        /\ SubSeq(q, Len(popped) + 1, Len(q)) =
                              SubSeq(pending_replies'[<<u, v, k>>], 1, Len(q) - Len(popped))
      ]_vars

\* C4 witness: a sent b two messages, then one message from b that names a
\* twice popped both entries.
C4_Witness ==
    /\ rows_kept = 3
    /\ msgs_naming[<<"b", "a">>] = 1
    /\ slots_naming[<<"b", "a">>] = 2
    /\ Len(matches) = 2
    /\ matches[1].replier = "b" /\ matches[2].replier = "b"
    /\ matches[1].t0 = 0 /\ matches[2].t0 = 1
    /\ pending_replies[<<"a", "b", TheKey>>] = <<>>
    /\ Len(pending_replies[<<"b", "a", TheKey>>]) = 2

NoSelfEdge == \A u \in Users : <<u, u>> \notin DOMAIN G.weight

\* C9 as stated: the weight of u -> v is the number of messages sent by u
\* that name v (a message naming v several times counted once), and there is
\* no edge u -> u.
C9_WeightCountsMessages ==
    /\ \A p \in OrderedPairs : Weight(p[1], p[2]) = msgs_naming[p]
    /\ NoSelfEdge

\* C9 amended: the weight of u -> v is the number of receiver slots naming v
\* in the messages sent by u (a message naming v twice adds 2), the edge
\* exists exactly when that number is positive, and there is no edge u -> u.
C9_WeightCountsSlots ==
    /\ \A p \in OrderedPairs :
          /\ Weight(p[1], p[2]) = slots_naming[p]
          /\ (p \in DOMAIN G.weight) <=> (slots_naming[p] > 0)
    /\ NoSelfEdge
    /\ G.nodes = {u \in Users : \E v \in Users : Weight(u, v) > 0 \/ Weight(v, u) > 0}

\* C9 witness: three messages kept, two of them from a naming b in three
\* receiver slots in all, and none from b naming a.
C9_Witness ==
    /\ Weight("a", "b") = 3
    /\ msgs_naming[<<"a", "b">>] = 2
    /\ rows_kept = 3
    /\ Weight("b", "a") = 0

-----------------------------------------------------------------------------
(* The ingestion pass over two conversations between the same users *)

ThreadSubjects == { <<"R", "E", ":", " ", "h">>, <<"x">> }

AllThreadKeys == { thread_key_of[s] : s \in ThreadSubjects }

\* timestamps in tenths of an hour: a reply after 0.5h gives a sample
ThreadTimes == {0, 5}

InitThreads ==
    /\ G = [nodes |-> {}, weight |-> <<>>]
    /\ user_stats = [u \in Users |-> NewUserStats]
    /\ pending_replies = [k \in Users \X Users \X AllThreadKeys |-> <<>>]
    /\ rows_kept = 0
    /\ matches = <<>>
    /\ slots_naming = [p \in OrderedPairs |-> 0]
    /\ msgs_naming = [p \in OrderedPairs |-> 0]
    /\ IdleNorm
    /\ IdleFrag
    /\ IdleMacro

NextThreads ==
    \E sender \in Users, receivers \in ReceiverLists, dt \in ThreadTimes,
       subj \in ThreadSubjects :
        Ingest(sender, receivers, dt, subj)

SpecThreads == InitThreads /\ [][NextThreads]_vars

\* the timestamps pending in the queues (u, v, k), all thread keys k together
PendingAll(u, v) ==
    LET ks == {q \in DOMAIN pending_replies : q[1] = u /\ q[2] = v}
    IN  SumSet([q \in ks |-> Len(pending_replies[q])], ks)

\* C11: after any sequence of ingested messages, for every ordered pair
\* (u, v) the timestamps still pending in the queues (u, v, k) over all
\* thread keys k plus the timestamps already popped from them are as many as
\* the weight of the edge u->v; and the response-time samples of a user are
\* never more than the user's in_degree_count nor the user's out_strength.
C11_PendingPlusPoppedIsWeight ==
    /\ \A u \in Users : \A v \in Users :
          PendingAll(u, v) + PoppedCount(u, v) = Weight(u, v)
    /\ \A u \in Users :
          /\ Len(user_stats[u].response_times) <= user_stats[u].in_degree_count
          /\ Len(user_stats[u].response_times) <= user_stats[u].out_strength

\* C11 witness: a has entries pending for b in both conversations, one entry
\* of a was popped by a reply of b, and that reply gave b a sample.
C11_Witness ==
    /\ \A k \in AllThreadKeys : <<"a", "b", k>> \in DOMAIN pending_replies
    /\ \A k \in AllThreadKeys : pending_replies[<<"a", "b", k>>] # <<>>
    /\ PoppedCount("a", "b") >= 1
    /\ Len(user_stats["b"].response_times) >= 1
    /\ Weight("a", "b") >= 3

-----------------------------------------------------------------------------
(* Graph primitives and compute_fragmentation_impact *)

Edges(g) == DOMAIN g.weight

number_of_nodes(g) == Cardinality(g.nodes)

\* the neighbours of n with the direction of the edges forgotten
WeakNeighbours(g, n) ==
    {m \in g.nodes : <<n, m>> \in Edges(g) \/ <<m, n>> \in Edges(g)}

RECURSIVE Reach(_, _, _)
Reach(g, seen, frontier) ==
    IF frontier = {} THEN seen
    ELSE LET next == (UNION {WeakNeighbours(g, n) : n \in frontier}) \ seen
         IN  Reach(g, seen \cup next, next)

\* nx.weakly_connected_components(G)
weakly_connected_components(g) == { Reach(g, {n}, {n}) : n \in g.nodes }

\* len(max(components, key=len)); max() of an empty sequence raises ValueError
len_max_component(g) ==
    IF g.nodes = {} THEN "ValueError"
    ELSE LET cs == weakly_connected_components(g)
         IN  Cardinality(CHOOSE c \in cs : \A d \in cs : Cardinality(d) <= Cardinality(c))

\* round(num / den, ndigits) of a non-negative quotient, counted in units of
\* the last digit kept: round half to even
RoundHalfEven(num, den) ==
    LET q == num \div den
        r == num % den
    IN  IF 2 * r < den THEN q
        ELSE IF 2 * r > den THEN q + 1
        ELSE IF q % 2 = 0 THEN q ELSE q + 1

\* line 175 computed on G instead of G_tmp: nothing is removed
graph_without_removal(g, members) == g

\* lines 173-174: G.copy() and remove_nodes_from(members); nodes that are not
\* in the graph are ignored, the edges of a removed node go with it
graph_after_removal(g, members) ==
    LET left == g.nodes \ members
        kept == {e \in Edges(g) : e[1] \in left /\ e[2] \in left}
    IN  [nodes |-> left, weight |-> [e \in kept |-> g.weight[e]]]

\* "... if G_tmp.number_of_edges() > 0 else 0": the guard on the edges
new_lcc_zero_without_edges(g_tmp) ==
    IF Edges(g_tmp) # {} THEN len_max_component(g_tmp) ELSE 0

\* line 175
new_lcc_of(g_tmp) ==
    IF number_of_nodes(g_tmp) > 0 THEN len_max_component(g_tmp) ELSE 0

\* lines 168-176; the impact is in hundredths of a percent (100.0 is 10000)
compute_fragmentation_impact(g, members) ==
    IF number_of_nodes(g) = 0
    THEN [original_lcc |-> 0, new_lcc |-> 0, impact |-> 0, left |-> g]
    ELSE LET original_lcc == len_max_component(g)
             G_tmp == graph_after_removal(g, members)
             new_lcc == new_lcc_of(G_tmp)
         IN  [original_lcc |-> original_lcc,
              new_lcc |-> new_lcc,
              impact |-> IF original_lcc > 0
                         THEN RoundHalfEven((original_lcc - new_lcc) * 10000, original_lcc)
                         ELSE 0,
              left |-> G_tmp]

\* the graphs on at most MaxFragNodes nodes, every set of directed edges
FragPairs(ns) == {e \in ns \X ns : e[1] # e[2]}

FragGraphs ==
    UNION { { [nodes |-> ns, weight |-> [e \in es |-> 1]] : es \in SUBSET FragPairs(ns) }
            : ns \in SUBSET (1..MaxFragNodes) }

InitFrag ==
    /\ frag_G \in FragGraphs
    /\ frag_members \in SUBSET (1..MaxFragNodes)
    /\ frag_pc = "in"
    /\ frag_out = NoFragOut
    /\ IdleIngest
    /\ IdleNorm
    /\ IdleMacro

ComputeFragmentation ==
    /\ frag_pc = "in"
    /\ frag_out' = compute_fragmentation_impact(frag_G, frag_members)
    /\ frag_pc' = "done"
    /\ UNCHANGED <<frag_G, frag_members, ingestVars, normVars, macroVars>>

NextFrag == ComputeFragmentation

SpecFrag == InitFrag /\ [][NextFrag]_vars

\* C7: on a non-empty graph the impact of the empty member set is 0 and the
\* impact of a member set holding every node is 100 with a new largest
\* component of 0; on the graph without nodes the impact is 0.
C7_FragmentationExtremes ==
    frag_pc = "done" =>
        /\ (frag_G.nodes # {} /\ frag_members = {}) => frag_out.impact = 0
        /\ (frag_G.nodes # {} /\ frag_G.nodes \subseteq frag_members) =>
              (frag_out.new_lcc = 0 /\ frag_out.impact = 10000)
        /\ frag_G.nodes = {} => frag_out.impact = 0

\* C7 witness: every node of a connected three-node graph was removed.
C7_Witness ==
    /\ frag_pc = "done"
    /\ frag_G.nodes = {1, 2, 3}
    /\ Edges(frag_G) = {<<1, 2>>, <<3, 2>>}
    /\ frag_members = {1, 2, 3}
    /\ frag_out.original_lcc = 3
    /\ frag_out.impact = 10000

\* C10 as stated: the new largest component counts 0 whenever the graph left
\* after the removal is empty or has no edges, so leaving only isolated nodes
\* gives an impact of 100.
C10_NoEdgesCountsZero ==
    frag_pc = "done" /\ frag_G.nodes # {} /\ Edges(frag_out.left) = {} =>
        /\ frag_out.new_lcc = 0
        /\ frag_out.original_lcc > 0 => frag_out.impact = 10000

\* C10 amended: the new largest component counts 0 only when the graph left
\* after the removal has no node; when nodes are left but no edge, it counts 1
\* and the impact is (original - 1) / original * 100, which is below 100.
C10_OnlyEmptyCountsZero ==
    frag_pc = "done" /\ frag_G.nodes # {} =>
        /\ frag_out.left.nodes = frag_G.nodes \ frag_members
        /\ frag_out.left.nodes = {} => (frag_out.new_lcc = 0 /\ frag_out.impact = 10000)
        /\ (frag_out.left.nodes # {} /\ Edges(frag_out.left) = {}) =>
              /\ frag_out.new_lcc = 1
              /\ frag_out.impact =
                    RoundHalfEven((frag_out.original_lcc - 1) * 10000, frag_out.original_lcc)
              /\ frag_out.impact < 10000

\* C10 witness: removing the middle of a three-node chain leaves two isolated
\* nodes: new largest component 1, impact 66.67.
C10_Witness ==
    /\ frag_pc = "done"
    /\ Edges(frag_G) = {<<1, 2>>, <<2, 3>>}
    /\ frag_members = {2}
    /\ Edges(frag_out.left) = {}
    /\ frag_out.new_lcc = 1
    /\ frag_out.impact = 6667

-----------------------------------------------------------------------------
(* The metric stage: detect_communities_and_macro_table and run_micro_simulation *)
(* Response times are in tenths of an hour, table averages in hundredths of an   *)
(* hour, E-I indices in hundredths, percentages in tenths of a percent.          *)

\* a float of the table: np.nan, or a number counted in units of its last digit
NaN == [isnan |-> TRUE, v |-> 0]
Num(x) == [isnan |-> FALSE, v |-> x]
isnan(x) == x.isnan

RECURSIVE SeqSum(_)
SeqSum(q) == IF q = <<>> THEN 0 ELSE Head(q) + SeqSum(Tail(q))

RECURSIVE SumOf(_, _)
SumOf(f, S) ==
    IF S = {} THEN 0
    ELSE LET x == CHOOSE y \in S : TRUE IN f[x] + SumOf(f, S \ {x})

RECURSIVE ProductOf(_, _)
ProductOf(f, S) ==
    IF S = {} THEN 1
    ELSE LET x == CHOOSE y \in S : TRUE IN f[x] * ProductOf(f, S \ {x})

\* round() of a quotient of either sign, den > 0
RoundSigned(num, den) ==
    IF num >= 0 THEN RoundHalfEven(num, den) ELSE 0 - RoundHalfEven(0 - num, den)

\* lines 204, 238-239: the mean over the members that have samples of their
\* own mean response time, rounded to hundredths of an hour (line 250)
community_avg_rt(stats, members) ==
    LET rts == {u \in members : stats[u].response_times # <<>>}
        lens == [u \in rts |-> Len(stats[u].response_times)]
        den == ProductOf(lens, rts)
        num == SumOf([u \in rts |-> SeqSum(stats[u].response_times) * (den \div lens[u])], rts)
    IN  IF rts = {} THEN NaN
        ELSE Num(RoundHalfEven(num * 10, den * Cardinality(rts)))

\* line 241
bottleneck_count(stats, members) ==
    Cardinality({u \in members :
                    /\ stats[u].response_times # <<>>
                    /\ SeqSum(stats[u].response_times) >
                          SLOW_THRESHOLD_TENTHS * Len(stats[u].response_times)})

\* lines 242-245: sum(loads[:top_k]) of the loads sorted in descending order
RECURSIVE top_loads_sum(_, _, _)
top_loads_sum(stats, S, k) ==
    IF k = 0 \/ S = {} THEN 0
    ELSE LET u == CHOOSE x \in S :
                     \A y \in S : stats[y].in_degree_count <= stats[x].in_degree_count
         IN  stats[u].in_degree_count + top_loads_sum(stats, S \ {u}, k - 1)

workload_skew(stats, members) ==
    LET total_load == SumOf([u \in members |-> stats[u].in_degree_count], members)
        sz == Cardinality(members)
        top_k == IF sz \div 10 >= 1 THEN sz \div 10 ELSE 1
    IN  IF total_load > 0
        THEN Num(RoundHalfEven(top_loads_sum(stats, members, top_k) * 1000, total_load))
        ELSE NaN

\* line 212: max() keeps the first maximal member of the list
key_user_of(stats, members) ==
    CHOOSE u \in members :
        /\ \A v \in members : stats[v].in_degree_count <= stats[u].in_degree_count
        /\ \A v \in members :
              stats[v].in_degree_count = stats[u].in_degree_count => u <= v

\* lines 212-255: the row of one retained community
community_row(g, stats, i, members) ==
    LET internal == {e \in Edges(g) : e[1] \in members /\ e[2] \in members}
        external == {e \in Edges(g) : e[1] \in members /\ e[2] \notin members}
        internal_c == Cardinality(internal)
        external_c == Cardinality(external)
        internal_w == SumOf(g.weight, internal)
        external_w == SumOf(g.weight, external)
        total_c == internal_c + external_c
        total_w == internal_w + external_w
    IN  [Dept_ID |-> <<i, key_user_of(stats, members)>>,
         Size |-> Cardinality(members),
         Avg_Response_H |-> community_avg_rt(stats, members),
         Bottleneck_Density |->
             RoundHalfEven(bottleneck_count(stats, members) * 1000, Cardinality(members)),
         Workload_Skew |-> workload_skew(stats, members),
         EI_Count |-> Num(IF total_c > 0
                          THEN RoundSigned((external_c - internal_c) * 100, total_c)
                          ELSE 0),
         EI_Weight |-> Num(IF total_w > 0
                           THEN RoundSigned((external_w - internal_w) * 100, total_w)
                           ELSE 0),
         members |-> members]

\* lines 207-256: the loop over the communities, those under 10 members skipped
RECURSIVE build_rows(_, _, _, _)
build_rows(g, stats, i, comms) ==
    IF i > Len(comms) THEN <<>>
    ELSE (IF Cardinality(comms[i]) < MIN_COMMUNITY_SIZE
          THEN <<>>
          ELSE <<community_row(g, stats, i, comms[i])>>)
         \o build_rows(g, stats, i + 1, comms)

\* lines 162-165, EI_FOR_TYPOLOGY = "weight"
pick_ei_for_typology(row) ==
    IF "EI_Weight" \in DOMAIN row THEN row.EI_Weight ELSE NaN

\* "ei >= EI_OPEN_THRESHOLD": the threshold itself taken as open
assign_typology_open_at_threshold(row) ==
    LET avg_rt == row.Avg_Response_H
        ei == row.EI_Index
        is_slow == ~isnan(avg_rt) /\ avg_rt.v > SLOW_THRESHOLD_HUNDREDTHS
        is_open == ~isnan(ei) /\ ei.v >= EI_OPEN_THRESHOLD_HUNDREDTHS
    IN  IF is_slow /\ ~is_open THEN "Black Hole"
        ELSE IF is_slow /\ is_open THEN "Overloaded Hub"
        ELSE IF ~is_slow /\ ~is_open THEN "Bureaucratic"
        ELSE "Agile Connector"

\* lines 179-193
assign_typology(row) ==
    LET avg_rt == row.Avg_Response_H
        ei == row.EI_Index
        is_slow == ~isnan(avg_rt) /\ avg_rt.v > SLOW_THRESHOLD_HUNDREDTHS
        is_open == ~isnan(ei) /\ ei.v > EI_OPEN_THRESHOLD_HUNDREDTHS
    IN  IF is_slow /\ ~is_open THEN "Black Hole"
        ELSE IF is_slow /\ is_open THEN "Overloaded Hub"
        ELSE IF ~is_slow /\ ~is_open THEN "Bureaucratic"
        ELSE "Agile Connector"

\* lines 259-261: the three derived columns of one row
finish_row(g, r) ==
    LET r1 == [Dept_ID |-> r.Dept_ID, Size |-> r.Size,
               Avg_Response_H |-> r.Avg_Response_H,
               Bottleneck_Density |-> r.Bottleneck_Density,
               Workload_Skew |-> r.Workload_Skew,
               EI_Count |-> r.EI_Count, EI_Weight |-> r.EI_Weight,
               Frag_Impact |-> compute_fragmentation_impact(g, r.members).impact]
        r2 == [Dept_ID |-> r1.Dept_ID, Size |-> r1.Size,
               Avg_Response_H |-> r1.Avg_Response_H,
               Bottleneck_Density |-> r1.Bottleneck_Density,
               Workload_Skew |-> r1.Workload_Skew,
               EI_Count |-> r1.EI_Count, EI_Weight |-> r1.EI_Weight,
               Frag_Impact |-> r1.Frag_Impact,
               EI_Index |-> pick_ei_for_typology(r1)]
    IN  [Dept_ID |-> r2.Dept_ID, Size |-> r2.Size,
         Avg_Response_H |-> r2.Avg_Response_H,
         Bottleneck_Density |-> r2.Bottleneck_Density,
         Workload_Skew |-> r2.Workload_Skew,
         EI_Count |-> r2.EI_Count, EI_Weight |-> r2.EI_Weight,
         Frag_Impact |-> r2.Frag_Impact,
         EI_Index |-> r2.EI_Index,
         Typology |-> assign_typology(r2)]

\* line 263: sort_values("Frag_Impact_%", ascending=False), a stable sort
RECURSIVE insert_by_impact(_, _)
insert_by_impact(sorted, r) ==
    IF sorted = <<>> THEN <<r>>
    ELSE IF Head(sorted).Frag_Impact >= r.Frag_Impact
         THEN <<Head(sorted)>> \o insert_by_impact(Tail(sorted), r)
         ELSE <<r>> \o sorted

RECURSIVE sort_by_impact(_)
sort_by_impact(rows) ==
    IF rows = <<>> THEN <<>>
    ELSE insert_by_impact(sort_by_impact(SubSeq(rows, 1, Len(rows) - 1)), rows[Len(rows)])

\* lines 196-265. The partition comes from an external primitive; the table is
\* built from whatever it returned. An empty list of rows makes a DataFrame
\* without columns, and line 259 then raises KeyError on df["Dept_ID"].
detect_communities_and_macro_table(g, stats, comms) ==
    LET rows == build_rows(g, stats, 1, comms)
    IN  IF rows = <<>>
        THEN [raised |-> "KeyError", df |-> <<>>, dept_members |-> <<>>]
        ELSE [raised |-> "none",
              df |-> sort_by_impact([k \in 1..Len(rows) |-> finish_row(g, rows[k])]),
              dept_members |->
                  [d \in {rows[k].Dept_ID : k \in 1..Len(rows)} |->
                      (CHOOSE r \in {rows[k] : k \in 1..Len(rows)} : r.Dept_ID = d).members]]

\* the subsets of S with j elements
RECURSIVE subsets_of_size(_, _)
subsets_of_size(S, j) ==
    IF j = 0 THEN {{}}
    ELSE UNION { {T \cup {x} : T \in subsets_of_size(S \ {x}, j - 1)} : x \in S }

\* the slices lst[:k] of the orderings of members, as sets: what the slice
\* leaves out is a subset with len(members) - k elements, or nothing
first_k_of(members, k) ==
    IF k >= Cardinality(members) THEN {members}
    ELSE {members \ T : T \in subsets_of_size(members, Cardinality(members) - k)}

\* line 327: the first top_k members of the list sorted by in_degree_count in
\* descending order; members with equal counts may come in either order
top_k_by_load(stats, members, k) ==
    {T \in first_k_of(members, k) :
        \A u \in T : \A v \in members \ T :
            stats[u].in_degree_count >= stats[v].in_degree_count}

\* lines 336-337: the first top_k members by subset betweenness, a ranking
\* computed by an external primitive: any top_k of the members
top_k_by_conn(members, k) ==
    first_k_of(members, k)

\* max(nx.weakly_connected_components(G), key=len) has nothing to choose from
max_of_nothing(g) == weakly_connected_components(g) = {}

\* lines 323-349: the outcomes of the simulation, one for each way the two
\* sorts can order the members; the first max() over the components of an
\* emptied graph ends it with ValueError
run_micro_simulation(g, members, stats, top_k) ==
    IF members = {} THEN {[raised |-> "none", out |-> NoMicroOut]}
    ELSE LET orig_lcc == len_max_component(g)
             after(removed) ==
                 LET G_tmp == graph_after_removal(g, removed)
                 IN  IF max_of_nothing(G_tmp) THEN [raised |-> "ValueError", lcc |-> 0]
                     ELSE [raised |-> "none", lcc |-> len_max_component(G_tmp)]
             loads == {after(T) : T \in top_k_by_load(stats, members, top_k)}
             conns == {after(T) : T \in top_k_by_conn(members, top_k)}
         IN  IF max_of_nothing(g)
             THEN {[raised |-> "ValueError", out |-> NoMicroOut]}
             ELSE {IF l.raised # "none" \/ c.raised # "none"
                   THEN [raised |-> "ValueError", out |-> NoMicroOut]
                   ELSE [raised |-> "none",
                         out |-> [orig_lcc |-> orig_lcc,
                                  new_lcc_load |-> l.lcc,
                                  new_lcc_conn |-> c.lcc]] :
                   l \in loads, c \in conns}

\* The finished graphs of the metric stage: users 1..n, with
\*   "path"    i <-> i+1, the edges at user n of weight w_ext, the others w_int
\*   "fan_in"  i -> n      "fan_out"  n -> i
Shapes == {"path", "fan_in", "fan_out"}

\* <<w_int, w_ext>>: with users 1..10 as the community of an 11-user path the
\* weighted E-I index is -7/29, -6/30, -5/31 and -101/511
WeightPairs == { <<1, 11>>, <<1, 12>>, <<1, 13>>, <<17, 205>> }

macro_graph(n, shape, w) ==
    LET es == IF shape = "path"
              THEN {e \in (1..n) \X (1..n) : e[1] = e[2] + 1 \/ e[2] = e[1] + 1}
              ELSE IF shape = "fan_in"
              THEN {e \in (1..n) \X (1..n) : e[2] = n /\ e[1] # n}
              ELSE {e \in (1..n) \X (1..n) : e[1] = n /\ e[2] # n}
    IN  [nodes |-> 1..n,
         weight |-> [e \in es |-> IF shape = "path" /\ (e[1] = n \/ e[2] = n)
                                   THEN w[2] ELSE w[1]]]

\* the response times of users 1 and 2, in tenths of an hour
RtProfiles ==
    { <<<<>>, <<>>>>, <<<<250>>, <<>>>>, <<<<240>>, <<>>>>, <<<<240>>, <<241>>>>,
      <<<<230, 251>>, <<>>>>, <<<<10>>, <<>>>> }

in_weight(g, u) == SumOf(g.weight, {e \in Edges(g) : e[2] = u})
out_weight(g, u) == SumOf(g.weight, {e \in Edges(g) : e[1] = u})

\* lines 136-145: in_degree_count is the weight received, and a user has at
\* most one sample per message sent and per message received
macro_user_stats(g, profile) ==
    [u \in g.nodes |->
        [in_degree_count |-> in_weight(g, u),
         out_strength |-> out_weight(g, u),
         response_times |-> IF u \in {1, 2} THEN profile[u] ELSE <<>>]]

profile_fits(g, profile) ==
    \A u \in {1, 2} :
        IF u \in g.nodes
        THEN Len(profile[u]) <= Min(in_weight(g, u), out_weight(g, u))
        ELSE profile[u] = <<>>

\* a partition of 1..n cut after user c, the larger community first
partition_at(n, c) ==
    IF n = 0 THEN <<>>
    ELSE IF c = n THEN <<1..n>>
    ELSE IF c >= n - c THEN <<1..c, (c + 1)..n>>
    ELSE <<(c + 1)..n, 1..c>>

InitMacro ==
    /\ IdleIngest /\ IdleNorm /\ IdleFrag
    /\ \E n \in (0..MaxMacroNodes) \ {1}, shape \in Shapes, w \in WeightPairs,
          profile \in RtProfiles :
          /\ profile_fits(macro_graph(n, shape, w), profile)
          /\ macro_G = macro_graph(n, shape, w)
          /\ macro_stats = macro_user_stats(macro_graph(n, shape, w), profile)
          /\ \E c \in (IF n = 0 THEN {0} ELSE 1..n) : macro_comms = partition_at(n, c)
    /\ macro_pc = "start"
    /\ cluster_df = <<>>
    /\ dept_members = <<>>
    /\ macro_error = "none"
    /\ micro_out = NoMicroOut

\* line 394
DetectCommunities ==
    /\ macro_pc = "start"
    /\ LET r == detect_communities_and_macro_table(macro_G, macro_stats, macro_comms)
       IN  /\ cluster_df' = r.df
           /\ dept_members' = r.dept_members
           /\ macro_error' = r.raised
           /\ macro_pc' = IF r.raised = "none" THEN "table" ELSE "error"
    /\ UNCHANGED <<macro_G, macro_stats, macro_comms, micro_out>>
    /\ UNCHANGED <<ingestVars, normVars, fragVars>>

\* lines 402-412: the drill-down on the first row of the table, top_k = 10
MicroSimulation ==
    /\ macro_pc = "table"
    /\ cluster_df # <<>>
    /\ \E r \in run_micro_simulation(macro_G, dept_members[cluster_df[1].Dept_ID],
                                      macro_stats, MICRO_TOP_K) :
          /\ micro_out' = r.out
          /\ macro_error' = r.raised
          /\ macro_pc' = IF r.raised = "none" THEN "done" ELSE "error"
    /\ UNCHANGED <<macro_G, macro_stats, macro_comms, cluster_df, dept_members>>
    /\ UNCHANGED <<ingestVars, normVars, fragVars>>

NextMacro == DetectCommunities \/ MicroSimulation

SpecMacro == InitMacro /\ [][NextMacro]_vars

\* C5: degenerate inputs never put the metric stage into an error state:
\* whatever the finished graph and its partition, the community table and the
\* robustness simulation end without raising. The code does raise: KeyError
\* at line 259 when no community has 10 members, ValueError at line 333
\* when the top 10 removed members are all the nodes of the graph.
C5_MetricStageNeverRaises == macro_error = "none"

-----------------------------------------------------------------------------
(* normalize_subject on bounded subjects: a subject is a concatenation of at *)
(* most MaxPieces pieces (markers in either case, blanks, other text).       *)

Pieces ==
    { <<"r", "e", ":">>, <<"R", "E", ":">>, <<"f", "w", ":">>, <<"F", "w", "d", ":">>,
      <<" ">>, <<"h">>, <<"f", "w">>, <<":">> }

RECURSIVE Concat(_)
Concat(ps) == IF ps = <<>> THEN <<>> ELSE Head(ps) \o Concat(Tail(ps))

SubjectInputs ==
    { Concat(ps) : ps \in UNION { [1..n -> Pieces] : n \in 0..MaxPieces } }

InitNorm ==
    /\ subject \in SubjectInputs
    /\ norm_pc = "in"
    /\ norm_once = <<>>
    /\ norm_twice = <<>>
    /\ IdleIngest
    /\ IdleFrag
    /\ IdleMacro

Normalize ==
    /\ norm_pc = "in"
    /\ norm_once' = normalize_subject(subject)
    /\ norm_pc' = "once"
    /\ UNCHANGED <<subject, norm_twice>>
    /\ UNCHANGED <<ingestVars, fragVars, macroVars>>

NormalizeAgain ==
    /\ norm_pc = "once"
    /\ norm_twice' = normalize_subject(norm_once)
    /\ norm_pc' = "twice"
    /\ UNCHANGED <<subject, norm_once>>
    /\ UNCHANGED <<ingestVars, fragVars, macroVars>>

NextNorm == Normalize \/ NormalizeAgain

SpecNorm == InitNorm /\ [][NextNorm]_vars

HasLeadingMarker(s) ==
    \/ StartsWith(s, <<"r", "e", ":">>)
    \/ StartsWith(s, <<"f", "w", ":">>)
    \/ StartsWith(s, <<"f", "w", "d", ":">>)

\* C8: normalize_subject(s) carries no leading reply/forward marker and is a
\* fixed point of normalize_subject, for every subject built from markers,
\* blanks and other text.
C8_NormalizeIdempotent ==
    /\ norm_pc \in {"once", "twice"} => ~HasLeadingMarker(norm_once)
    /\ norm_pc = "twice" => norm_twice = norm_once

\* C8 witness: a subject with two stacked markers in mixed case was normalized
\* twice down to its remainder.
C8_Witness ==
    /\ norm_pc = "twice"
    /\ subject = <<"R", "E", ":", " ", "F", "w", "d", ":", "h">>
    /\ norm_once = <<"h">>

====
